---- MODULE Spec2Model ----
(***************************************************************************)
(* Model of dicom-test-files (rust/src/lib.rs, rust/src/test_file.rs):     *)
(* the cache-and-fetch engine behind path(name), run by several threads    *)
(* over one shared file system and one remote source.                      *)
(***************************************************************************)
EXTENDS Integers, Sequences, FiniteSets, TLC

\* ------------------------------------------------------------- bounds
\* number of threads calling path() in parallel
NThreads == 2
\* number of path() calls made in all, by all threads together
MaxCalls == 2

Threads == 1..NThreads

\* ------------------------------------------------------------- data
\* A string is a sequence of tokens; "/" is a token of its own.
\* A byte is a number in 0..3; 0 is also what a hole in a file reads as.

NameCT == <<"pydicom", "/", "CT_small.dcm">>
NameNM == <<"WG04", "/", "REF", "/", "NM1_UNC">>
NameUnknown == <<"pydicom", "/", "no_such_file.dcm">>

\* the DICOM data of each test file, before any compression
Content(name) == IF name = NameCT THEN <<1, 2>> ELSE <<3, 3, 3>>

\* the compressed stream of a byte sequence: (run length, byte) pairs
RECURSIVE ZstdEncode(_)
ZstdEncode(bytes) ==
    IF bytes = <<>> THEN <<>>
    ELSE LET b == Head(bytes)
             run == CHOOSE k \in 1..Len(bytes) :
                        /\ \A i \in 1..k : bytes[i] = b
                        /\ (k = Len(bytes) \/ bytes[k + 1] # b)
         IN <<run, b>> \o ZstdEncode(SubSeq(bytes, run + 1, Len(bytes)))

\* zstd::Decoder: the bytes a compressed stream decodes to
RECURSIVE ZstdDecode(_)
ZstdDecode(wire) ==
    IF Len(wire) < 2 THEN <<>>
    ELSE [i \in 1..wire[1] |-> wire[2]] \o ZstdDecode(SubSeq(wire, 3, Len(wire)))

\* Sha256: an injective digest of a byte sequence
RECURSIVE Sha256(_)
Sha256(bytes) ==
    IF bytes = <<>> THEN 0
    ELSE Sha256(SubSeq(bytes, 1, Len(bytes) - 1)) * 5 + bytes[Len(bytes)] + 1

HexDigits == <<"0", "1", "2", "3", "4", "5", "6", "7",
               "8", "9", "a", "b", "c", "d", "e", "f">>

\* format!("{:x}", hash): lowercase hexadecimal rendering
RECURSIVE FormatHex(_)
FormatHex(n) ==
    IF n < 16 THEN <<HexDigits[n + 1]>>
    ELSE Append(FormatHex(n \div 16), HexDigits[(n % 16) + 1])

\* ------------------------------------------------------------- registry
\* test_file.rs: TestFile::none / TestFile::zstd
TestFileNone(name, hash) == [name |-> name, compression |-> "None", hash |-> hash]
TestFileZstd(name, hash) == [name |-> name, compression |-> "Zstd", hash |-> hash]

\* the file stored in the data folder (and served by the remote) for a name
StoredBytes(name, compression) ==
    IF compression = "Zstd" THEN ZstdEncode(Content(name)) ELSE Content(name)

\* entries.rs: the registry; each hash is the digest of the stored file
FILE_ENTRIES ==
    << TestFileNone(NameCT, FormatHex(Sha256(StoredBytes(NameCT, "None")))),
       TestFileZstd(NameNM, FormatHex(Sha256(StoredBytes(NameNM, "Zstd")))) >>

Names == {NameCT, NameNM, NameUnknown}
NoEntry == [name |-> <<>>, compression |-> "None", hash |-> <<>>]

\* a lookup that falls back to the first entry for a name it does not find
lookup_default(name) ==
    IF \E i \in 1..Len(FILE_ENTRIES) : FILE_ENTRIES[i].name = name
    THEN FILE_ENTRIES[CHOOSE i \in 1..Len(FILE_ENTRIES) : FILE_ENTRIES[i].name = name]
    ELSE FILE_ENTRIES[1]

\* lib.rs lookup: the first entry with this name, or none
lookup(name) ==
    IF \E i \in 1..Len(FILE_ENTRIES) : FILE_ENTRIES[i].name = name
    THEN FILE_ENTRIES[CHOOSE i \in 1..Len(FILE_ENTRIES) :
             /\ FILE_ENTRIES[i].name = name
             /\ \A j \in 1..(i - 1) : FILE_ENTRIES[j].name # name]
    ELSE NoEntry

Registered == {n \in Names : lookup(n) # NoEntry}

\* a remote file name that is the entry's name for both compressions
real_file_name_plain(entry) == entry.name

\* test_file.rs real_file_name
real_file_name(entry) ==
    IF entry.compression = "Zstd" THEN Append(entry.name, ".zst") ELSE entry.name

\* lib.rs get_data_path
get_data_path == <<"target", "/", "dicom_test_files">>

\* PathBuf::join
Join(dir, rel) == dir \o <<"/">> \o rel

\* Path::parent: everything before the last separator
Parent(p) ==
    LET last == CHOOSE i \in 1..Len(p) :
                    p[i] = "/" /\ \A j \in (i + 1)..Len(p) : p[j] # "/"
    IN SubSeq(p, 1, last - 1)

CachedPath(name) == Join(get_data_path, name)

\* ------------------------------------------------------------- base URL
\* an environment variable: set or not, and its value
Unset == [set |-> FALSE, val |-> <<>>]
Var(v) == [set |-> TRUE, val |-> v]

DEFAULT_GITHUB_BASE_URL ==
    <<"https://raw.githubusercontent.com", "/", "robyoung", "/",
      "dicom-test-files", "/", "master", "/", "data", "/">>
RAW_GITHUBUSERCONTENT_URL == <<"https://raw.githubusercontent.com">>

\* str::ends_with
EndsWith(s, suffix) ==
    /\ Len(s) >= Len(suffix)
    /\ SubSeq(s, Len(s) - Len(suffix) + 1, Len(s)) = suffix

\* env::var(..).unwrap_or_default()
UnwrapOrDefault(v) == IF v.set THEN v.val ELSE <<>>

UrlOk(u) == [ok |-> TRUE, url |-> u]
UrlErr == [ok |-> FALSE, url |-> <<>>]

\* a resolution that takes a variable it cannot read for an empty one
base_url_lenient(e) ==
    IF e.DICOM_TEST_FILES_URL.set /\ e.DICOM_TEST_FILES_URL.val # <<>>
    THEN LET u == e.DICOM_TEST_FILES_URL.val
         IN UrlOk(IF ~EndsWith(u, <<"/">>) THEN Append(u, "/") ELSE u)
    ELSE LET ci == UnwrapOrDefault(e.CI)
             github_repository == UnwrapOrDefault(e.GITHUB_REPOSITORY)
         IN IF /\ ci = <<"true">>
               /\ EndsWith(github_repository, <<"/", "dicom-test-files">>)
               /\ UnwrapOrDefault(e.GITHUB_EVENT_NAME) = <<"pull_request">>
            THEN UrlOk(RAW_GITHUBUSERCONTENT_URL \o <<"/">>
                       \o github_repository \o <<"/">>
                       \o UnwrapOrDefault(e.GITHUB_HEAD_REF) \o <<"/", "data", "/">>)
            ELSE UrlOk(DEFAULT_GITHUB_BASE_URL)

\* lib.rs base_url
base_url(e) ==
    IF e.DICOM_TEST_FILES_URL.set /\ e.DICOM_TEST_FILES_URL.val # <<>>
    THEN LET u == e.DICOM_TEST_FILES_URL.val
         IN UrlOk(IF ~EndsWith(u, <<"/">>) THEN Append(u, "/") ELSE u)
    ELSE LET ci == UnwrapOrDefault(e.CI)
             github_repository == UnwrapOrDefault(e.GITHUB_REPOSITORY)
         IN IF ci = <<"true">> /\ EndsWith(github_repository, <<"/", "dicom-test-files">>)
            THEN IF ~e.GITHUB_EVENT_NAME.set THEN UrlErr
                 ELSE IF e.GITHUB_EVENT_NAME.val = <<"pull_request">>
                      THEN IF ~e.GITHUB_HEAD_REF.set THEN UrlErr
                           ELSE UrlOk(RAW_GITHUBUSERCONTENT_URL \o <<"/">>
                                      \o github_repository \o <<"/">>
                                      \o e.GITHUB_HEAD_REF.val \o <<"/", "data", "/">>)
                      ELSE UrlOk(DEFAULT_GITHUB_BASE_URL)
            ELSE UrlOk(DEFAULT_GITHUB_BASE_URL)

Env(u, ci, repo, event, head) ==
    [DICOM_TEST_FILES_URL |-> u, CI |-> ci, GITHUB_REPOSITORY |-> repo,
     GITHUB_EVENT_NAME |-> event, GITHUB_HEAD_REF |-> head]

\* a developer machine; a machine with the source overridden; a CI run of the
\* project whose event name is missing. The threads run in one of the first
\* and the last.
EnvPlain == Env(Unset, Unset, Unset, Unset, Unset)
EnvOverride == Env(Var(<<"http://mirror", "/", "data">>), Unset, Unset, Unset, Unset)
EnvBrokenCI == Env(Unset, Var(<<"true">>), Var(<<"me", "/", "dicom-test-files">>),
                   Unset, Unset)
Environments == {EnvPlain, EnvBrokenCI}

\* the values the five variables base_url reads may have
EnvSpace ==
    {Env(u, ci, repo, event, head) :
        u \in {Unset, Var(<<>>), Var(<<"http://mirror", "/", "data">>),
                Var(<<"http://mirror", "/", "data", "/">>)},
        ci \in {Unset, Var(<<"true">>), Var(<<"false">>)},
        repo \in {Unset, Var(<<"me", "/", "dicom-test-files">>),
                   Var(<<"me", "/", "other">>)},
        event \in {Unset, Var(<<"pull_request">>), Var(<<"push">>)},
        head \in {Unset, Var(<<"feature">>)}}

\* ------------------------------------------------------------- files
Absent == [exists |-> FALSE, bytes |-> <<>>]
File(b) == [exists |-> TRUE, bytes |-> b]

\* a write of one byte at a file offset (0-based); a gap reads as zeros
WriteAt(bytes, offset, b) ==
    [i \in 1..(IF Len(bytes) > offset THEN Len(bytes) ELSE offset + 1) |->
        IF i = offset + 1 THEN b
        ELSE IF i <= Len(bytes) THEN bytes[i] ELSE 0]

\* what the remote may serve instead of the stored file: a cut-off body, a
\* body with its last byte changed
CorruptBodies(good) ==
    { SubSeq(good, 1, Len(good) - 1),
      [good EXCEPT ![Len(good)] = (good[Len(good)] + 1) % 4] } \ {<<>>, good}

\* ------------------------------------------------------------- state
VARIABLES
    zstd,       \* the build has the "zstd" feature
    env,        \* the environment variables of the process
    cache,      \* the file at the cached path of each registered name
    dirs,       \* the directories created under the data path
    tmpfiles,   \* per thread: the "tmpfile" of each temporary directory it made
    call,       \* per thread: the running path() call and its position
    obs,        \* per thread: what the running call has done so far
    prev,       \* per thread: name and result of the call before this one, if Ok
    calls,      \* per thread: number of path() calls started
    testpc,     \* per thread: position in tests::load_a_single_path_2
    allrun,     \* per thread: the running all() call and its position
    responses   \* per thread: number of successful HTTP responses received

vars == <<zstd, env, cache, dirs, tmpfiles, call, obs, prev, calls, testpc,
          allrun, responses>>

\* Result<PathBuf, Error>
NoResult == [kind |-> "none", detail |-> <<>>]
Ok(p) == [kind |-> "Ok", detail |-> p]
Err(kind) == [kind |-> kind, detail |-> <<>>]
ErrDownload(u, e) == [kind |-> "Download", detail |-> <<"Failed to download ">> \o u \o <<": ", e>>]

IdleCall == [pc |-> "idle", name |-> <<>>, url |-> <<>>, resp |-> <<>>,
             tdir |-> 0, off |-> 0, result |-> NoResult]
\* net: requests sent; hashed: the byte sequences digested; fsops: changes made
\* to the file system; wrote: changes made at the cached path; miss: the cache
\* check found no file; fault: what went wrong on the way; seen: the file at
\* the cached path when the call returned
NoObs == [net |-> 0, hashed |-> <<>>, fsops |-> 0, wrote |-> 0,
          miss |-> FALSE, fault |-> "none", seen |-> Absent]
NoPrev == [name |-> <<>>, result |-> NoResult]
\* all(): i is the registry entry being mapped, paths the PathBufs collected
NoAll == [pc |-> "none", i |-> 0, paths |-> <<>>, result |-> NoResult]

TypeOK ==
    /\ zstd \in BOOLEAN
    /\ env \in EnvSpace
    /\ DOMAIN cache = Registered
    /\ \A t \in Threads : call[t].pc \in
           {"idle", "download", "request", "tempdir", "copy", "check_hash",
            "install", "decode", "remove_tmp", "done"}

Init ==
    /\ zstd \in BOOLEAN
    /\ env \in Environments
    /\ cache = [n \in Registered |-> Absent]
    /\ dirs = {}
    /\ tmpfiles = [t \in Threads |-> <<>>]
    /\ call = [t \in Threads |-> IdleCall]
    /\ obs = [t \in Threads |-> NoObs]
    /\ prev = [t \in Threads |-> NoPrev]
    /\ calls = [t \in Threads |-> 0]
    /\ testpc = [t \in Threads |-> "none"]
    /\ allrun = [t \in Threads |-> NoAll]
    /\ responses = [t \in Threads |-> 0]

RECURSIVE SumTo(_, _)
SumTo(f, n) == IF n = 0 THEN 0 ELSE f[n] + SumTo(f, n - 1)
\* the number of calls started by all threads
Total(f) == SumTo(f, NThreads)

\* the entry and the cached path of the call thread t is running
Entry(t) == lookup(call[t].name)
Cached(t) == CachedPath(Entry(t).name)
TmpFile(t) == tmpfiles[t][call[t].tdir]

\* the call of thread t returns res; the file then at its cached path is f
Return(t, res, f) ==
    /\ call' = [call EXCEPT ![t].pc = "done", ![t].result = res]
    /\ obs' = [obs EXCEPT ![t].seen = f]

\* ------------------------------------------------------------- path()
\* a cache check that never finds the file
exists_never(n) == FALSE

\* lib.rs path: cached_path.exists()
exists(n) == cache[n].exists

\* lib.rs path: lookup, then the cache check; a hit returns at once
path(t, n) ==
    /\ call[t].pc \in {"idle", "done"}
    /\ calls' = [calls EXCEPT ![t] = @ + 1]
    /\ prev' = [prev EXCEPT ![t] =
                   IF call[t].pc = "done" /\ call[t].result.kind = "Ok"
                   THEN [name |-> call[t].name, result |-> call[t].result]
                   ELSE NoPrev]
    /\ LET entry == lookup(n)
           cached_path == CachedPath(entry.name)
       IN IF entry = NoEntry
          THEN /\ call' = [call EXCEPT ![t] =
                      [IdleCall EXCEPT !.pc = "done", !.name = n,
                                       !.result = Err("NotFound")]]
               /\ obs' = [obs EXCEPT ![t] = NoObs]
          ELSE IF exists(entry.name)
          THEN /\ call' = [call EXCEPT ![t] =
                      [IdleCall EXCEPT !.pc = "done", !.name = n,
                                       !.result = Ok(cached_path)]]
               /\ obs' = [obs EXCEPT ![t] = [NoObs EXCEPT !.seen = cache[entry.name]]]
          ELSE /\ call' = [call EXCEPT ![t] =
                      [IdleCall EXCEPT !.pc = "download", !.name = n]]
               /\ obs' = [obs EXCEPT ![t] = [NoObs EXCEPT !.miss = TRUE]]
    /\ UNCHANGED <<zstd, env, cache, dirs, tmpfiles, responses>>

\* lib.rs download, up to the request: second lookup, create_dir_all, base_url
download(t) ==
    /\ call[t].pc = "download"
    /\ IF Entry(t) = NoEntry
       THEN /\ Return(t, Err("NotFound"), Absent)
            /\ UNCHANGED dirs
       ELSE LET target_parent_dir == Parent(Cached(t))
                base == base_url(env)
                made == IF target_parent_dir \in dirs THEN 0 ELSE 1
            IN /\ dirs' = dirs \cup {target_parent_dir}
               /\ IF ~base.ok
                  THEN /\ call' = [call EXCEPT ![t].pc = "done",
                                               ![t].result = Err("ResolveUrl")]
                       /\ obs' = [obs EXCEPT ![t].fsops = @ + made,
                                             ![t].seen = cache[Entry(t).name]]
                  ELSE /\ call' = [call EXCEPT ![t].pc = "request",
                                ![t].url = base.url \o real_file_name(Entry(t))]
                       /\ obs' = [obs EXCEPT ![t].fsops = @ + made]
    /\ UNCHANGED <<zstd, env, cache, tmpfiles, prev, calls, testpc, allrun, responses>>

\* ureq::get(&url).call() answers with the stored file
call_ok(t) ==
    /\ call[t].pc = "request"
    /\ call' = [call EXCEPT ![t].pc = "tempdir",
                  ![t].resp = StoredBytes(Entry(t).name, Entry(t).compression)]
    /\ responses' = [responses EXCEPT ![t] = @ + 1]
    /\ obs' = [obs EXCEPT ![t].net = @ + 1]
    /\ UNCHANGED <<zstd, env, cache, dirs, tmpfiles, prev, calls, testpc, allrun>>

\* ureq::get(&url).call() answers with a success status and other bytes
call_corrupt(t) ==
    /\ call[t].pc = "request"
    /\ \E body \in CorruptBodies(StoredBytes(Entry(t).name, Entry(t).compression)) :
          call' = [call EXCEPT ![t].pc = "tempdir", ![t].resp = body]
    /\ responses' = [responses EXCEPT ![t] = @ + 1]
    /\ obs' = [obs EXCEPT ![t].net = @ + 1]
    /\ UNCHANGED <<zstd, env, cache, dirs, tmpfiles, prev, calls, testpc, allrun>>

\* a failing request that is sent again instead of ending the call
call_err_retry(t) ==
    /\ call[t].pc = "request"
    /\ obs' = [obs EXCEPT ![t].net = @ + 1, ![t].fault = "connection"]
    /\ UNCHANGED <<zstd, env, cache, dirs, tmpfiles, call, prev, calls, testpc,
                   allrun, responses>>

\* ureq::get(&url).call() fails: no connection, or a non-success status
call_err(t) ==
    /\ call[t].pc = "request"
    /\ \E e \in {"connection", "status"} :
          /\ call' = [call EXCEPT ![t].pc = "done",
                                  ![t].result = ErrDownload(call[t].url, e)]
          /\ obs' = [obs EXCEPT ![t].net = @ + 1, ![t].fault = e,
                                ![t].seen = cache[Entry(t).name]]
    /\ UNCHANGED <<zstd, env, cache, dirs, tmpfiles, prev, calls, testpc, allrun, responses>>

\* tempfile::tempdir_in and fs::File::create of "tmpfile" in it
create_tmpfile(t) ==
    /\ call[t].pc = "tempdir"
    /\ tmpfiles' = [tmpfiles EXCEPT ![t] = Append(@, File(<<>>))]
    /\ call' = [call EXCEPT ![t].pc = "copy", ![t].tdir = Len(tmpfiles[t]) + 1]
    /\ obs' = [obs EXCEPT ![t].fsops = @ + 1]
    /\ UNCHANGED <<zstd, env, cache, dirs, prev, calls, testpc, allrun, responses>>

\* std::io::copy of the response body into the temporary file
copy_body(t) ==
    /\ call[t].pc = "copy"
    /\ tmpfiles' = [tmpfiles EXCEPT ![t][call[t].tdir] = File(call[t].resp)]
    /\ call' = [call EXCEPT ![t].pc = "check_hash"]
    /\ obs' = [obs EXCEPT ![t].fsops = @ + 1]
    /\ UNCHANGED <<zstd, env, cache, dirs, prev, calls, testpc, allrun, responses>>

\* std::io::copy fails while reading the body: the `?` returns Error::Io
copy_body_err(t) ==
    /\ call[t].pc = "copy"
    /\ \E k \in 0..(Len(call[t].resp) - 1) :
          tmpfiles' = [tmpfiles EXCEPT ![t][call[t].tdir] =
                          File(SubSeq(call[t].resp, 1, k))]
    /\ call' = [call EXCEPT ![t].pc = "done", ![t].result = Err("Io")]
    /\ obs' = [obs EXCEPT ![t].fsops = @ + 1, ![t].fault = "body", ![t].seen = cache[Entry(t).name]]
    /\ UNCHANGED <<zstd, env, cache, dirs, prev, calls, testpc, allrun, responses>>

\* a check_hash that accepts whatever digest it computes
check_hash_accept(t) ==
    /\ call[t].pc = "check_hash"
    /\ call' = [call EXCEPT ![t].pc = "install"]
    /\ obs' = [obs EXCEPT ![t].hashed = Append(@, TmpFile(t).bytes)]
    /\ UNCHANGED <<zstd, env, cache, dirs, tmpfiles, prev, calls, testpc, allrun, responses>>

\* a check_hash that reports a mismatch and leaves the temporary file behind
check_hash_keep(t) ==
    /\ call[t].pc = "check_hash"
    /\ LET file == TmpFile(t).bytes
       IN IF FormatHex(Sha256(file)) # Entry(t).hash
          THEN /\ call' = [call EXCEPT ![t].pc = "done",
                                       ![t].result = Err("InvalidHash")]
               /\ obs' = [obs EXCEPT ![t].hashed = Append(@, file),
                                     ![t].seen = cache[Entry(t).name]]
          ELSE /\ call' = [call EXCEPT ![t].pc = "install"]
               /\ obs' = [obs EXCEPT ![t].hashed = Append(@, file)]
    /\ UNCHANGED <<zstd, env, cache, dirs, tmpfiles, prev, calls, testpc, allrun, responses>>

\* a check_hash that digests the decompressed data of a compressed entry
check_hash_decoded(t) ==
    /\ call[t].pc = "check_hash"
    /\ LET file == IF Entry(t).compression = "Zstd"
                   THEN ZstdDecode(TmpFile(t).bytes) ELSE TmpFile(t).bytes
       IN IF FormatHex(Sha256(file)) # FormatHex(Sha256(Content(Entry(t).name)))
          THEN /\ tmpfiles' = [tmpfiles EXCEPT ![t][call[t].tdir] = Absent]
               /\ call' = [call EXCEPT ![t].pc = "done",
                                       ![t].result = Err("InvalidHash")]
               /\ obs' = [obs EXCEPT ![t].hashed = Append(@, file),
                                     ![t].fsops = @ + 1,
                                     ![t].seen = cache[Entry(t).name]]
          ELSE /\ call' = [call EXCEPT ![t].pc = "install"]
               /\ obs' = [obs EXCEPT ![t].hashed = Append(@, file)]
               /\ UNCHANGED tmpfiles
    /\ UNCHANGED <<zstd, env, cache, dirs, prev, calls, testpc, allrun, responses>>

\* a check_hash that on a mismatch removes the file at the cached path
check_hash_unlink(t) ==
    /\ call[t].pc = "check_hash"
    /\ LET file == TmpFile(t).bytes
       IN IF FormatHex(Sha256(file)) # Entry(t).hash
          THEN /\ cache' = [cache EXCEPT ![Entry(t).name] = Absent]
               /\ call' = [call EXCEPT ![t].pc = "done",
                                       ![t].result = Err("InvalidHash")]
               /\ obs' = [obs EXCEPT ![t].hashed = Append(@, file),
                                     ![t].fsops = @ + 1,
                                     ![t].seen = Absent]
          ELSE /\ call' = [call EXCEPT ![t].pc = "install"]
               /\ obs' = [obs EXCEPT ![t].hashed = Append(@, file)]
               /\ UNCHANGED cache
    /\ UNCHANGED <<zstd, env, dirs, tmpfiles, prev, calls, testpc, allrun, responses>>

\* lib.rs check_hash: digest of the temporary file against the entry's hash;
\* on a mismatch the temporary file is removed
check_hash(t) ==
    /\ call[t].pc = "check_hash"
    /\ LET file == TmpFile(t).bytes
           hash == Sha256(file)
       IN IF FormatHex(hash) # Entry(t).hash
          THEN /\ tmpfiles' = [tmpfiles EXCEPT ![t][call[t].tdir] = Absent]
               /\ call' = [call EXCEPT ![t].pc = "done",
                                       ![t].result = Err("InvalidHash")]
               /\ obs' = [obs EXCEPT ![t].hashed = Append(@, file),
                                     ![t].fsops = @ + 1,
                                     ![t].seen = cache[Entry(t).name]]
          ELSE /\ call' = [call EXCEPT ![t].pc = "install"]
               /\ obs' = [obs EXCEPT ![t].hashed = Append(@, file)]
               /\ UNCHANGED tmpfiles
    /\ UNCHANGED <<zstd, env, cache, dirs, prev, calls, testpc, allrun, responses>>

\* a rename after which the temporary directory is removed as well
rename_rmdir(t) ==
    /\ call[t].pc = "install"
    /\ Entry(t).compression = "None"
    /\ cache' = [cache EXCEPT ![Entry(t).name] = TmpFile(t)]
    /\ tmpfiles' = [tmpfiles EXCEPT ![t] = SubSeq(@, 1, Len(@) - 1)]
    /\ call' = [call EXCEPT ![t].pc = "done", ![t].result = Ok(Cached(t)),
                             ![t].tdir = 0]
    /\ obs' = [obs EXCEPT ![t].fsops = @ + 1, ![t].wrote = @ + 1,
                          ![t].seen = TmpFile(t)]
    /\ UNCHANGED <<zstd, env, dirs, prev, calls, testpc, allrun, responses>>

\* Compression::None: fs::rename of the temporary file to the cached path
rename(t) ==
    /\ call[t].pc = "install"
    /\ Entry(t).compression = "None"
    /\ cache' = [cache EXCEPT ![Entry(t).name] = TmpFile(t)]
    /\ tmpfiles' = [tmpfiles EXCEPT ![t][call[t].tdir] = Absent]
    /\ call' = [call EXCEPT ![t].pc = "done", ![t].result = Ok(Cached(t))]
    /\ obs' = [obs EXCEPT ![t].fsops = @ + 1, ![t].wrote = @ + 1,
                          ![t].seen = TmpFile(t)]
    /\ UNCHANGED <<zstd, env, dirs, prev, calls, testpc, allrun, responses>>

\* a featureless write_zstd that reports success without writing anything
write_zstd_silent(t) ==
    /\ call[t].pc = "install"
    /\ Entry(t).compression = "Zstd"
    /\ ~zstd
    /\ Return(t, Ok(Cached(t)), cache[Entry(t).name])
    /\ UNCHANGED <<zstd, env, cache, dirs, tmpfiles, prev, calls, testpc, allrun, responses>>

\* write_zstd without the "zstd" feature
write_zstd_required(t) ==
    /\ call[t].pc = "install"
    /\ Entry(t).compression = "Zstd"
    /\ ~zstd
    /\ Return(t, Err("ZstdRequired"), cache[Entry(t).name])
    /\ UNCHANGED <<zstd, env, cache, dirs, tmpfiles, prev, calls, testpc, allrun, responses>>

\* write_zstd with the feature: open the source, fs::File::create(cached_path)
write_zstd(t) ==
    /\ call[t].pc = "install"
    /\ Entry(t).compression = "Zstd"
    /\ zstd
    /\ cache' = [cache EXCEPT ![Entry(t).name] = File(<<>>)]
    /\ call' = [call EXCEPT ![t].off = 0,
                  ![t].pc = IF ZstdDecode(TmpFile(t).bytes) = <<>>
                            THEN "remove_tmp" ELSE "decode"]
    /\ obs' = [obs EXCEPT ![t].fsops = @ + 1, ![t].wrote = @ + 1]
    /\ UNCHANGED <<zstd, env, dirs, tmpfiles, prev, calls, testpc, allrun, responses>>

\* write_zstd, std::io::copy: one more decoded byte goes to the cached path,
\* at this writer's own file offset
write_zstd_copy(t) ==
    /\ call[t].pc = "decode"
    /\ LET decoded == ZstdDecode(TmpFile(t).bytes)
           target == cache[Entry(t).name]
       IN /\ cache' = [cache EXCEPT ![Entry(t).name] =
                 File(WriteAt(target.bytes, call[t].off, decoded[call[t].off + 1]))]
          /\ call' = [call EXCEPT ![t].off = @ + 1,
                        ![t].pc = IF call[t].off + 1 = Len(decoded)
                                  THEN "remove_tmp" ELSE "decode"]
    /\ obs' = [obs EXCEPT ![t].fsops = @ + 1, ![t].wrote = @ + 1]
    /\ UNCHANGED <<zstd, env, dirs, tmpfiles, prev, calls, testpc, allrun, responses>>

\* write_zstd, std::io::copy fails part-way: the `?` returns Error::Io
write_zstd_err(t) ==
    /\ call[t].pc = "decode"
    /\ call' = [call EXCEPT ![t].pc = "done", ![t].result = Err("Io")]
    /\ obs' = [obs EXCEPT ![t].fault = "decode", ![t].seen = cache[Entry(t).name]]
    /\ UNCHANGED <<zstd, env, cache, dirs, tmpfiles, prev, calls, testpc, allrun, responses>>

\* Compression::Zstd: fs::remove_file of the temporary file, then Ok
remove_tmpfile(t) ==
    /\ call[t].pc = "remove_tmp"
    /\ tmpfiles' = [tmpfiles EXCEPT ![t][call[t].tdir] = Absent]
    /\ call' = [call EXCEPT ![t].pc = "done", ![t].result = Ok(Cached(t))]
    /\ obs' = [obs EXCEPT ![t].fsops = @ + 1, ![t].seen = cache[Entry(t).name]]
    /\ UNCHANGED <<zstd, env, cache, dirs, prev, calls, testpc, allrun, responses>>

\* ------------------------------------------------------------- callers
\* a caller outside the tests asks for any name; the threads are numbered in
\* the order of their first calls
Call(t) ==
    /\ testpc[t] = "none"
    /\ allrun[t].pc = "none"
    /\ \A u \in 1..(t - 1) : calls[u] > 0
    /\ Total(calls) < MaxCalls
    /\ \E n \in Names : path(t, n)
    /\ UNCHANGED <<testpc, allrun>>

\* lib.rs all: the map closure calls path() for the next registry entry
all_map(t) ==
    /\ allrun[t].pc = "next"
    /\ allrun[t].i <= Len(FILE_ENTRIES)
    /\ path(t, FILE_ENTRIES[allrun[t].i].name)
    /\ allrun' = [allrun EXCEPT ![t].pc = "wait"]
    /\ UNCHANGED testpc

\* an all() that goes on to the next entry after an error and reports the
\* first error at the end
all_collect_continue(t) ==
    /\ allrun[t].pc = "wait"
    /\ call[t].pc = "done"
    /\ LET last == allrun[t].i = Len(FILE_ENTRIES)
           failed == allrun[t].result # NoResult \/ call[t].result.kind # "Ok"
           paths == IF call[t].result.kind = "Ok"
                    THEN Append(allrun[t].paths, call[t].result.detail)
                    ELSE allrun[t].paths
           first == IF allrun[t].result # NoResult THEN allrun[t].result
                    ELSE call[t].result
       IN allrun' = [allrun EXCEPT ![t] =
             [pc |-> IF last THEN "done" ELSE "next",
              i |-> IF last /\ failed THEN 1 ELSE IF last THEN @.i ELSE @.i + 1,
              paths |-> paths,
              result |-> IF failed THEN first ELSE IF last THEN Ok(paths) ELSE NoResult]]
    /\ UNCHANGED <<zstd, env, cache, dirs, tmpfiles, call, obs, prev, calls, testpc,
                   responses>>

\* lib.rs all: collect::<Result<Vec<PathBuf>, Error>>() takes the result of
\* path(): an Ok is pushed, the first Err ends the iteration and is returned
all_collect(t) ==
    /\ allrun[t].pc = "wait"
    /\ call[t].pc = "done"
    /\ IF call[t].result.kind = "Ok"
       THEN LET paths == Append(allrun[t].paths, call[t].result.detail)
            IN IF allrun[t].i = Len(FILE_ENTRIES)
               THEN allrun' = [allrun EXCEPT ![t].pc = "done", ![t].paths = paths,
                                             ![t].result = Ok(paths)]
               ELSE allrun' = [allrun EXCEPT ![t].pc = "next", ![t].paths = paths,
                                             ![t].i = @ + 1]
       ELSE allrun' = [allrun EXCEPT ![t].pc = "done", ![t].result = call[t].result]
    /\ UNCHANGED <<zstd, env, cache, dirs, tmpfiles, call, obs, prev, calls, testpc,
                   responses>>

\* tests::load_a_single_path_2: fs::remove_file(cached_path), result ignored
test_remove(t) ==
    /\ testpc[t] = "remove"
    /\ cache' = [cache EXCEPT ![NameCT] = Absent]
    /\ testpc' = [testpc EXCEPT ![t] = "path"]
    /\ UNCHANGED <<zstd, env, dirs, tmpfiles, call, obs, prev, calls, allrun, responses>>

\* tests::load_a_single_path_2: path("pydicom/CT_small.dcm")
test_path(t) ==
    /\ testpc[t] = "path"
    /\ path(t, NameCT)
    /\ testpc' = [testpc EXCEPT ![t] = "unwrap"]
    /\ UNCHANGED allrun

\* tests::load_a_single_path_2: unwrap() and assert!(path.exists())
test_assert(t) ==
    /\ testpc[t] = "unwrap"
    /\ call[t].pc = "done"
    /\ testpc' = [testpc EXCEPT ![t] =
          IF call[t].result.kind # "Ok" THEN "panicked"
          ELSE IF cache[NameCT].exists THEN "passed" ELSE "panicked"]
    /\ UNCHANGED <<zstd, env, cache, dirs, tmpfiles, call, obs, prev, calls, allrun, responses>>

\* ------------------------------------------------------------- specifications
\* the steps of a call on which nothing goes wrong
Step(t) ==
    \/ download(t)
    \/ call_ok(t)
    \/ create_tmpfile(t)
    \/ copy_body(t)
    \/ check_hash(t)
    \/ rename(t)
    \/ write_zstd_required(t)
    \/ write_zstd(t)
    \/ write_zstd_copy(t)
    \/ remove_tmpfile(t)

\* what the remote and the file system may do wrong
Fault(t) ==
    \/ call_corrupt(t)
    \/ call_err(t)
    \/ copy_body_err(t)
    \/ write_zstd_err(t)

Next == \E t \in Threads : Call(t) \/ Step(t) \/ Fault(t)

Spec == Init /\ [][Next]_vars

\* the remote serves the stored files and no I/O fails
InitNoFault == Init /\ env = EnvPlain
NextNoFault == \E t \in Threads : Call(t) \/ Step(t)
SpecNoFault == InitNoFault /\ [][NextNoFault]_vars

\* tests::load_a_single_path_concurrent: every thread runs load_a_single_path_2
\* against a data path that may hold the file from an earlier run
InitTest ==
    /\ zstd \in BOOLEAN
    /\ env = EnvPlain
    /\ cache \in {[n \in Registered |-> Absent],
                  [n \in Registered |-> IF n = NameCT THEN File(Content(n)) ELSE Absent]}
    /\ dirs = {}
    /\ tmpfiles = [t \in Threads |-> <<>>]
    /\ call = [t \in Threads |-> IdleCall]
    /\ obs = [t \in Threads |-> NoObs]
    /\ prev = [t \in Threads |-> NoPrev]
    /\ calls = [t \in Threads |-> 0]
    /\ testpc = [t \in Threads |-> "remove"]
    /\ allrun = [t \in Threads |-> NoAll]
    /\ responses = [t \in Threads |-> 0]
NextTest ==
    \E t \in Threads :
        \/ test_remove(t)
        \/ test_path(t)
        \/ download(t)
        \/ call_ok(t)
        \/ create_tmpfile(t)
        \/ copy_body(t)
        \/ check_hash(t)
        \/ rename(t)
        \/ test_assert(t)
SpecTest == InitTest /\ [][NextTest]_vars

\* one caller, no faults, in every environment base_url can tell apart
InitUrl ==
    /\ zstd \in BOOLEAN
    /\ env \in EnvSpace
    /\ cache = [n \in Registered |-> Absent]
    /\ dirs = {}
    /\ tmpfiles = [t \in Threads |-> <<>>]
    /\ call = [t \in Threads |-> IdleCall]
    /\ obs = [t \in Threads |-> NoObs]
    /\ prev = [t \in Threads |-> NoPrev]
    /\ calls = [t \in Threads |-> 0]
    /\ testpc = [t \in Threads |-> "none"]
    /\ allrun = [t \in Threads |-> NoAll]
    /\ responses = [t \in Threads |-> 0]
NextUrl == Call(1) \/ Step(1)
SpecUrl == InitUrl /\ [][NextUrl]_vars

\* the first thread runs all() while the others call path()
InitAll ==
    /\ zstd \in BOOLEAN
    /\ env = EnvPlain
    /\ cache = [n \in Registered |-> Absent]
    /\ dirs = {}
    /\ tmpfiles = [t \in Threads |-> <<>>]
    /\ call = [t \in Threads |-> IdleCall]
    /\ obs = [t \in Threads |-> NoObs]
    /\ prev = [t \in Threads |-> NoPrev]
    /\ calls = [t \in Threads |-> 0]
    /\ testpc = [t \in Threads |-> "none"]
    /\ allrun = [t \in Threads |->
                   IF t = 1 THEN [NoAll EXCEPT !.pc = "next", !.i = 1] ELSE NoAll]
    /\ responses = [t \in Threads |-> 0]
NextAll ==
    \E t \in Threads :
        all_map(t) \/ all_collect(t) \/ Call(t) \/ Step(t) \/ Fault(t)
SpecAll == InitAll /\ [][NextAll]_vars

\* ------------------------------------------------------------- properties
\* the registry as a table, and the points of a call the properties speak of
RegistryNames == {FILE_ENTRIES[i].name : i \in 1..Len(FILE_ENTRIES)}
RegistryTable ==
    [n \in RegistryNames |->
        FILE_ENTRIES[CHOOSE i \in 1..Len(FILE_ENTRIES) : FILE_ENTRIES[i].name = n]]
InRegistry(n) == n \in RegistryNames
EntryOf(n) == RegistryTable[n]
Digest(bytes) == FormatHex(Sha256(bytes))
Started(t) == call[t].pc # "idle"
Returned(t) == call[t].pc = "done"
\* thread t has hashed its download, which was complete
Hashed(t) == obs[t].hashed # <<>>

\* C1: a call for a name that is not in the registry is answered at once with
\* NotFound, having sent no request and changed nothing in the file system.
C1_UnknownNameNotFound ==
    \A t \in Threads :
        (Started(t) /\ ~InRegistry(call[t].name)) =>
            /\ Returned(t)
            /\ call[t].result = Err("NotFound")
            /\ obs[t].net = 0
            /\ obs[t].fsops = 0
            /\ obs[t].wrote = 0

C1_Witness ==
    \E t \in Threads :
        /\ Returned(t)
        /\ call[t].name = NameUnknown
        /\ call[t].result.kind = "NotFound"

\* C2: with the remote serving the stored files and no I/O fault, every call
\* that missed the cache, for an entry this build can install, returns Ok and
\* the file at its cached path is the complete content when it returns.
C2_ParallelCallersSeeCompleteFile ==
    \A t \in Threads :
        (/\ Returned(t)
         /\ obs[t].miss
         /\ InRegistry(call[t].name)
         /\ (EntryOf(call[t].name).compression = "None" \/ zstd)) =>
            /\ call[t].result.kind = "Ok"
            /\ obs[t].seen = File(Content(call[t].name))

\* C3: in every state the cached path of each name is absent or holds the
\* complete content.
C3_CachedPathAbsentOrComplete ==
    \A n \in DOMAIN cache : cache[n] = Absent \/ cache[n] = File(Content(n))

\* C4 as stated: a call that missed the cache and returns Ok leaves a file
\* whose digest is the registry's hash of the name, whatever the compression.
C4_FreshCallDigestMatches ==
    \A t \in Threads :
        (Returned(t) /\ obs[t].miss /\ call[t].result.kind = "Ok") =>
            /\ obs[t].seen.exists
            /\ Digest(obs[t].seen.bytes) = EntryOf(call[t].name).hash

\* C4 as amended: a call for an entry with compression None that missed the
\* cache and returns Ok leaves a file whose digest is the registry's hash.
C4_FreshUncompressedDigestMatches ==
    \A t \in Threads :
        (/\ Returned(t)
         /\ obs[t].miss
         /\ call[t].result.kind = "Ok"
         /\ EntryOf(call[t].name).compression = "None") =>
            /\ obs[t].seen.exists
            /\ Digest(obs[t].seen.bytes) = EntryOf(call[t].name).hash

C4_Witness ==
    \E t \in Threads :
        /\ Returned(t)
        /\ obs[t].miss
        /\ call[t].result.kind = "Ok"
        /\ call[t].name = NameCT
        /\ obs[t].seen = File(Content(NameCT))

\* C5: a call that follows, in the same thread, a call for the same name that
\* returned Ok returns the same path as a cache hit: no request, no digest,
\* no change to the file system.
C5_SecondCallIsCacheHit ==
    \A t \in Threads :
        (/\ Started(t)
         /\ prev[t].result.kind = "Ok"
         /\ prev[t].name = call[t].name) =>
            /\ Returned(t)
            /\ call[t].result = prev[t].result
            /\ ~obs[t].miss
            /\ obs[t].net = 0
            /\ obs[t].hashed = <<>>
            /\ obs[t].fsops = 0

C5_Witness ==
    \E t \in Threads :
        /\ Returned(t)
        /\ prev[t].result.kind = "Ok"
        /\ prev[t].name = call[t].name
        /\ call[t].result = Ok(CachedPath(call[t].name))
        /\ Len(tmpfiles[t]) = 1

\* C6: once a call has digested a download that does not match the registry's
\* hash, it has returned InvalidHash, its temporary file is gone and it has
\* changed nothing at the cached path.
C6_InvalidHashCleansUp ==
    \A t \in Threads :
        (Hashed(t) /\ Digest(call[t].resp) # EntryOf(call[t].name).hash) =>
            /\ Returned(t)
            /\ call[t].result = Err("InvalidHash")
            /\ TmpFile(t) = Absent
            /\ obs[t].wrote = 0

C6_Witness ==
    \E t \in Threads :
        /\ Returned(t)
        /\ call[t].result.kind = "InvalidHash"
        /\ call[t].tdir > 0
        /\ cache[call[t].name] = Absent

\* C7: in the concurrent test no thread panics: each call returns Ok and the
\* file exists when the thread looks for it afterwards.
C7_ConcurrentTestPasses ==
    \A t \in Threads : testpc[t] # "panicked"

\* C8: every transport failure (connecting, a non-success status, reading the
\* body) ends the call with Download(detail), the URL being part of the detail.
C8_TransportFailureIsDownload ==
    \A t \in Threads :
        (Returned(t) /\ obs[t].fault \in {"connection", "status", "body"}) =>
            /\ call[t].result.kind = "Download"
            /\ \E i \in 1..Len(call[t].result.detail) :
                  SubSeq(call[t].result.detail, i, i + Len(call[t].url) - 1) = call[t].url

\* C9: in a build without the feature, a call for a Zstd entry that missed the
\* cache never returns Ok and never touches the cached path, and once its
\* download has passed the hash check it returns ZstdRequired.
C9_NoFeatureNeverInstalls ==
    \A t \in Threads :
        (/\ ~zstd
         /\ Started(t)
         /\ InRegistry(call[t].name)
         /\ EntryOf(call[t].name).compression = "Zstd"
         /\ obs[t].miss) =>
            /\ call[t].result.kind # "Ok"
            /\ obs[t].wrote = 0
            /\ cache[call[t].name] = Absent
            /\ (/\ Returned(t)
                /\ Hashed(t)
                /\ Digest(call[t].resp) = EntryOf(call[t].name).hash)
                  => call[t].result = Err("ZstdRequired")

C9_Witness ==
    \E t \in Threads :
        /\ ~zstd
        /\ Returned(t)
        /\ call[t].name = NameNM
        /\ call[t].result.kind = "ZstdRequired"

\* C10: for a Zstd entry the one digest a call computes is that of the bytes
\* it downloaded, and it has matched the registry's hash before anything is
\* decompressed to the cached path; the decompressed data is never digested.
C10_HashOverWireBytes ==
    \A t \in Threads :
        (/\ Started(t)
         /\ InRegistry(call[t].name)
         /\ EntryOf(call[t].name).compression = "Zstd") =>
            /\ Len(obs[t].hashed) <= 1
            /\ \A i \in 1..Len(obs[t].hashed) : obs[t].hashed[i] = call[t].resp
            /\ (call[t].pc \in {"decode", "remove_tmp"} \/ obs[t].wrote > 0) =>
                  /\ Len(obs[t].hashed) = 1
                  /\ Digest(obs[t].hashed[1]) = EntryOf(call[t].name).hash

C10_Witness ==
    \E t \in Threads :
        /\ call[t].name = NameNM
        /\ call[t].pc = "decode"
        /\ call[t].off = 1
        /\ obs[t].hashed = <<ZstdEncode(Content(NameNM))>>

\* C11: a call sends at most one request, none when it hits the cache or the
\* name is unknown, goes no further once something has failed, and has one
\* result exactly when it has returned: Ok with the cached path, or one error.
C11_OneRequestOneOutcome ==
    \A t \in Threads :
        /\ obs[t].net <= 1
        /\ (Started(t) /\ ~obs[t].miss) => (obs[t].net = 0 /\ Returned(t))
        /\ obs[t].fault # "none" => Returned(t)
        /\ Returned(t) <=> call[t].result # NoResult
        /\ Returned(t) =>
              call[t].result.kind \in {"Ok", "NotFound", "InvalidHash", "Download",
                                       "Io", "ResolveUrl", "ZstdRequired"}
        /\ (Returned(t) /\ call[t].result.kind = "Ok") =>
              call[t].result.detail = CachedPath(call[t].name)
        /\ (Returned(t) /\ call[t].result.kind \in {"InvalidHash", "ZstdRequired", "Io"}) =>
              obs[t].net = 1

C11_Witness ==
    \E t \in Threads :
        /\ Returned(t)
        /\ call[t].result.kind = "Download"
        /\ obs[t].net = 1
        /\ obs[t].fault = "status"

\* C12: a call that returns an error has left no incomplete or corrupt file of
\* its own making at the cached path.
C12_FailedCallLeavesNoFile ==
    \A t \in Threads :
        (Returned(t) /\ call[t].result.kind # "Ok" /\ obs[t].wrote > 0) =>
            (~obs[t].seen.exists \/ obs[t].seen = File(Content(call[t].name)))

\* C13: whatever changes the file at a cached path is the rename of the
\* temporary file of a call whose hash check has succeeded.
C13_WritesOnlyByVerifiedRename ==
    [][\A n \in DOMAIN cache :
         cache'[n] # cache[n] =>
            \E t \in Threads :
                /\ call[t].name = n
                /\ call[t].pc = "install"
                /\ Hashed(t)
                /\ Digest(obs[t].hashed[1]) = EntryOf(n).hash
                /\ cache'[n] = TmpFile(t)
                /\ tmpfiles'[t][call[t].tdir] = Absent]_vars

\* C14: once the file at a cached path holds the complete content, it holds
\* it in every later state.
C14_CompleteFileStaysComplete ==
    [][\A n \in DOMAIN cache :
         cache[n] = File(Content(n)) => cache'[n] = cache[n]]_vars

\* C15: when a call that created a temporary file has returned, that file no
\* longer exists.
C15_TmpFileGoneOnReturn ==
    \A t \in Threads :
        (Returned(t) /\ call[t].tdir > 0) => TmpFile(t) = Absent

\* C17: a file that exists at a cached path exists there after every step,
\* and a call started while it exists returns Ok at once as a cache hit.
C17_ExistenceMonotonic ==
    [][\A n \in DOMAIN cache :
         cache[n].exists =>
            /\ cache'[n].exists
            /\ \A t \in Threads :
                  (calls'[t] # calls[t] /\ call'[t].name = n) =>
                      /\ call'[t].pc = "done"
                      /\ call'[t].result = Ok(CachedPath(n))
                      /\ ~obs'[t].miss]_vars

C17_Witness ==
    \E t \in Threads :
        /\ Returned(t)
        /\ ~obs[t].miss
        /\ call[t].result.kind = "Ok"
        /\ cache[call[t].name].exists
        /\ \E u \in Threads : u # t /\ obs[u].wrote > 0

\* C19: the temporary directories a thread's calls have left on disk are as
\* many as the successful responses they received; the directory of a call
\* is a fresh one, made under the existing parent of its cached path; a
\* call that sent no request or whose request failed made none.
C19_OneTempDirPerResponse ==
    \A t \in Threads :
        /\ Len(tmpfiles[t]) + (IF call[t].pc = "tempdir" THEN 1 ELSE 0) = responses[t]
        /\ call[t].tdir > 0 =>
              /\ call[t].tdir = Len(tmpfiles[t])
              /\ Parent(CachedPath(call[t].name)) \in dirs
        /\ (obs[t].net = 0 \/ obs[t].fault \in {"connection", "status"}) =>
              call[t].tdir = 0
        /\ call[t].pc \in {"copy", "check_hash", "install", "decode", "remove_tmp"} =>
              call[t].tdir > 0

C19_Witness ==
    \E t \in Threads :
        /\ Returned(t)
        /\ Len(tmpfiles[t]) = 2
        /\ responses[t] = 2
        /\ call[t].result.kind = "Ok"

\* the paths of the first k registry entries, in registry order
FirstPaths(k) == [j \in 1..k |-> CachedPath(FILE_ENTRIES[j].name)]

\* C18: all() calls path() for the entries in registry order; it returns Ok
\* with one path per entry in that order when every call succeeded, and
\* otherwise the error of the first failing entry, having made no call for
\* any later entry and with the files of the earlier entries still cached.
C18_AllInOrderStopsAtFirstError ==
    \A t \in Threads :
        allrun[t].pc # "none" =>
            LET i == allrun[t].i
            IN /\ i \in 1..Len(FILE_ENTRIES)
               /\ allrun[t].paths \in {FirstPaths(i - 1), FirstPaths(i)}
               /\ allrun[t].pc = "next" => (calls[t] = i - 1 /\ allrun[t].paths = FirstPaths(i - 1))
               /\ allrun[t].pc = "wait" =>
                     /\ calls[t] = i
                     /\ call[t].name = FILE_ENTRIES[i].name
                     /\ allrun[t].paths = FirstPaths(i - 1)
               /\ (allrun[t].pc = "done" /\ allrun[t].result.kind = "Ok") =>
                     /\ allrun[t].result.detail = FirstPaths(Len(FILE_ENTRIES))
                     /\ calls[t] = Len(FILE_ENTRIES)
               /\ (allrun[t].pc = "done" /\ allrun[t].result.kind # "Ok") =>
                     /\ call[t].name = FILE_ENTRIES[i].name
                     /\ allrun[t].result = call[t].result
                     /\ allrun[t].result.kind \in {"InvalidHash", "Download", "Io",
                                                  "ZstdRequired"}
                     /\ calls[t] = i
                     /\ allrun[t].paths = FirstPaths(i - 1)
                     /\ \A j \in 1..(i - 1) : cache[FILE_ENTRIES[j].name].exists

C18_Witness ==
    \E t \in Threads :
        /\ allrun[t].pc = "done"
        /\ allrun[t].i = 2
        /\ allrun[t].result.kind = "InvalidHash"
        /\ allrun[t].paths = <<CachedPath(NameCT)>>
        /\ cache[NameCT] = File(Content(NameCT))

\* thread t's call found no cached file and has resolved, or failed to
\* resolve, the base URL
Resolved(t) ==
    /\ call[t].name \in Registered
    /\ obs[t].miss
    /\ call[t].pc # "download"

\* C16: the URL requested is the base URL, the entry's name, and ".zst"
\* exactly for a Zstd entry; the path returned, where the file was installed,
\* is the data path joined with the name, for both compressions.
C16_RemoteNameSuffixedLocalNot ==
    \A t \in Threads :
        (Resolved(t) /\ call[t].result.kind # "ResolveUrl") =>
            LET name == call[t].name
                suffix == IF EntryOf(name).compression = "Zstd"
                          THEN <<".zst">> ELSE <<>>
            IN /\ call[t].url = base_url(env).url \o name \o suffix
               /\ (Returned(t) /\ call[t].result.kind = "Ok") =>
                     /\ call[t].result.detail = get_data_path \o <<"/">> \o name
                     /\ cache[name].exists
                     /\ obs[t].wrote > 0

C16_Witness ==
    \E t \in Threads :
        /\ Resolved(t)
        /\ Returned(t)
        /\ call[t].result = Ok(get_data_path \o <<"/">> \o NameNM)
        /\ EntryOf(NameNM).compression = "Zstd"
        /\ call[t].url = DEFAULT_GITHUB_BASE_URL \o NameNM \o <<".zst">>
        /\ cache[NameNM] = File(Content(NameNM))

\* the base of the URL thread t requests: the URL without the remote name
BaseOf(t) ==
    SubSeq(call[t].url, 1, Len(call[t].url) - Len(real_file_name(EntryOf(call[t].name))))

Overridden(e) == e.DICOM_TEST_FILES_URL.set /\ e.DICOM_TEST_FILES_URL.val # <<>>
OnProjectCI(e) ==
    /\ e.CI = Var(<<"true">>)
    /\ e.GITHUB_REPOSITORY.set
    /\ EndsWith(e.GITHUB_REPOSITORY.val, <<"/", "dicom-test-files">>)
PullRequest(e) == OnProjectCI(e) /\ e.GITHUB_EVENT_NAME = Var(<<"pull_request">>)
PullRequestUrl(e) ==
    RAW_GITHUBUSERCONTENT_URL \o <<"/">> \o e.GITHUB_REPOSITORY.val \o <<"/">>
        \o e.GITHUB_HEAD_REF.val \o <<"/", "data", "/">>
\* the environments in which a variable base_url needs is missing
Unreadable(e) ==
    /\ ~Overridden(e)
    /\ OnProjectCI(e)
    /\ \/ ~e.GITHUB_EVENT_NAME.set
       \/ PullRequest(e) /\ ~e.GITHUB_HEAD_REF.set

\* C20 as stated: resolution never fails; without an override the base is the
\* pull-request URL exactly on a pull-request event of the project's CI, and
\* the default everywhere else.
C20_ResolutionAlwaysYieldsUrl ==
    \A t \in Threads :
        Resolved(t) =>
            /\ call[t].result.kind # "ResolveUrl"
            /\ ~Overridden(env) =>
                  BaseOf(t) = IF PullRequest(env) THEN PullRequestUrl(env)
                              ELSE DEFAULT_GITHUB_BASE_URL

\* C20: resolution fails with ResolveUrl exactly when there is no override,
\* the run is the project's CI, and GITHUB_EVENT_NAME is unset or it is
\* pull_request with GITHUB_HEAD_REF unset; otherwise it yields the override
\* with a trailing separator, the pull-request URL on a pull-request event of
\* the project's CI, and the default in every other environment.
C20_ResolutionFailsOnMissingVar ==
    \A t \in Threads :
        Resolved(t) =>
            IF Unreadable(env)
            THEN /\ call[t].result = Err("ResolveUrl")
                 /\ call[t].url = <<>>
                 /\ obs[t].net = 0
            ELSE /\ call[t].result.kind # "ResolveUrl"
                 /\ BaseOf(t) =
                       IF Overridden(env)
                       THEN IF EndsWith(env.DICOM_TEST_FILES_URL.val, <<"/">>)
                            THEN env.DICOM_TEST_FILES_URL.val
                            ELSE env.DICOM_TEST_FILES_URL.val \o <<"/">>
                       ELSE IF PullRequest(env) THEN PullRequestUrl(env)
                       ELSE DEFAULT_GITHUB_BASE_URL

C20_Witness ==
    \E t \in Threads :
        /\ Resolved(t)
        /\ Returned(t)
        /\ call[t].result.kind = "Ok"
        /\ PullRequest(env)
        /\ BaseOf(t) = <<"https://raw.githubusercontent.com", "/", "me", "/",
                         "dicom-test-files", "/", "feature", "/", "data", "/">>

====
